---------------------------- MODULE Spec2Model ----------------------------
(***************************************************************************)
(* Model of the feature-drift selector                                     *)
(*   ui/src/container/models/Details/current/data-drift/                   *)
(*   binary-classification/use-get-filtered-features.js                    *)
(*                                                                         *)
(* The hook reads two externally owned snapshots (the polled drift data    *)
(* and the form metadata) and returns the filtered list of feature         *)
(* metrics.  The model keeps the two snapshots as state, lets the          *)
(* environment change them, and has one action for an invocation of the    *)
(* hook.                                                                   *)
(*                                                                         *)
(* JavaScript values that may be undefined are modelled as tuples of       *)
(* length 0 (undefined) or 1 (a defined value).                            *)
(***************************************************************************)
EXTENDS Naturals, Sequences, FiniteSets

\* ------------------------------------------------------------------ bounds
\* Longest featureMetrics list the polling layer delivers in the model.
MaxItems == 2

\* ------------------------------------------------------- JavaScript values
Undefined == <<>>

Some(v) == <<v>>

\* ToBoolean for the values the toggles can hold (true, false, undefined).
Truthy(v) == v = Some(TRUE)

\* a && b : the left operand when it is falsy, else the right operand.
And(a, b) == IF Truthy(a) THEN b ELSE a

\* a || b : the left operand when it is truthy, else the right operand.
Or(a, b) == IF Truthy(a) THEN a ELSE b

\* a === b for two strings.
StrictEquals(a, b) == Some(a = b)

\* Array.prototype.includes
includes(arr, x) == \E i \in 1..Len(arr) : arr[i] = x

\* ------------------------------------------------------------- data model
\* The test kinds of '@Src/constants'; KS is the numerical test, CHI2 the
\* categorical one, PSI stands for any further kind of the enumeration.
DRIFT_TEST_ENUM == [KS |-> "KS", CHI2 |-> "CHI2", PSI |-> "PSI"]

TestKinds == {DRIFT_TEST_ENUM.KS, DRIFT_TEST_ENUM.CHI2, DRIFT_TEST_ENUM.PSI}

FeatureNames == {"age", "city"}

Metrics == [featureName : FeatureNames, driftCalc : [type : TestKinds]]

SeqUpTo(S, n) == UNION {[1..k -> S] : k \in 0..n}

\* What useGetCurrentDriftQueryWithPolling can hand out as `data`:
\* nothing yet, or an object whose drift / featureMetrics may be missing.
Datasets ==
    {Undefined}
    \cup {Some([drift |-> Undefined])}
    \cup {Some([drift |-> Some([featureMetrics |-> Undefined])])}
    \cup {Some([drift |-> Some([featureMetrics |-> Some(s)])]) :
            s \in SeqUpTo(Metrics, MaxItems)}

ToggleValues == {Some(TRUE), Some(FALSE), Undefined}

\* The allow-list of a multi-select: absent, or the chosen names in the
\* order they were picked, each at most once.
Selections ==
    {Undefined}
    \cup {Some(s) : s \in {t \in SeqUpTo(FeatureNames, Cardinality(FeatureNames)) :
                            \A i, j \in 1..Len(t) : i # j => t[i] # t[j]}}

FormMetadata ==
    [isNumericalSelected : ToggleValues,
     isCategoricalSelected : ToggleValues,
     selectedFeatures : Selections]

\* ------------------------------------------------------------------ state
VARIABLES
    data,          \* snapshot held by the polling hook
    metadata,      \* form.__metadata held by the formbit context
    completion,    \* how the latest invocation on the current snapshots ended
    consoleDebug,  \* console.debug lines written by that invocation
    first          \* the first invocation of a run: its inputs and its result

vars == <<data, metadata, completion, consoleDebug, first>>

\* ------------------------------------------------------------ the function
\* A completion: the hook returned the list v, or it threw the error e.
Return(v) == [type |-> "return", value |-> v]

Throw(e) == [type |-> "throw", value |-> Some(e)]

\* const items = data?.drift?.featureMetrics ?? [];
Items(d) ==
    IF d = Undefined THEN <<>>
    ELSE IF d[1].drift = Undefined THEN <<>>
    ELSE IF d[1].drift[1].featureMetrics = Undefined THEN <<>>
    ELSE d[1].drift[1].featureMetrics[1]

\* Variant: the test written as length >= 0, so an empty list counts as a
\* selection.
HasSelection_EmptyCounts(m) == m.selectedFeatures # Undefined

\* selectedFeatures?.length > 0
HasSelection(m) ==
    IF m.selectedFeatures = Undefined THEN FALSE
    ELSE Len(m.selectedFeatures[1]) > 0

\* const isSelected = selectedFeatures.includes(featureName);
isSelected(m, featureName) == Some(includes(m.selectedFeatures[1], featureName))

\* Variant: the numerical test written as "not the categorical kind".
isNumerical_NotCHI2(m, type) ==
    And(m.isNumericalSelected, Some(type # DRIFT_TEST_ENUM.CHI2))

\* const isNumerical = isNumericalSelected && type === DRIFT_TEST_ENUM.KS;
isNumerical(m, type) ==
    And(m.isNumericalSelected, StrictEquals(type, DRIFT_TEST_ENUM.KS))

\* Variant: the comparison with the categorical kind left out.
isCategorical_NoTypeTest(m, type) == And(m.isCategoricalSelected, Some(TRUE))

\* const isCategorical = isCategoricalSelected && type === DRIFT_TEST_ENUM.CHI2;
isCategorical(m, type) ==
    And(m.isCategoricalSelected, StrictEquals(type, DRIFT_TEST_ENUM.CHI2))

\* Variant: the name test joined with || instead of &&.
SelectedAndTyped_OrName(m, metric) ==
    Or(isSelected(m, metric.featureName),
       Or(isNumerical(m, metric.driftCalc.type),
          isCategorical(m, metric.driftCalc.type)))

\* callback of the first filter: isSelected && (isNumerical || isCategorical)
SelectedAndTyped(m, metric) ==
    And(isSelected(m, metric.featureName),
        Or(isNumerical(m, metric.driftCalc.type),
           isCategorical(m, metric.driftCalc.type)))

\* callback of the second filter: isNumerical || isCategorical
Typed(m, metric) ==
    Or(isNumerical(m, metric.driftCalc.type),
       isCategorical(m, metric.driftCalc.type))

\* Array.prototype.filter with the first callback
FilterSelectedAndTyped(items, m) ==
    LET Keep(metric) == Truthy(SelectedAndTyped(m, metric))
    IN  SelectSeq(items, Keep)

\* Variant: the kept items come out newest first.
FilterTyped_Reversed(items, m) ==
    LET Keep(metric) == Truthy(Typed(m, metric))
        kept == SelectSeq(items, Keep)
    IN  [i \in 1..Len(kept) |-> kept[Len(kept) + 1 - i]]

\* Array.prototype.filter with the second callback
FilterTyped(items, m) ==
    LET Keep(metric) == Truthy(Typed(m, metric))
    IN  SelectSeq(items, Keep)

\* Variant: data.drift read without optional chaining on data.
useGetFilteredFeatures_DataNotChained(d, m) ==
    IF d = Undefined THEN Throw("TypeError")
    ELSE IF ~Truthy(m.isNumericalSelected) /\ ~Truthy(m.isCategoricalSelected)
         THEN Return(<<>>)
    ELSE IF HasSelection(m) THEN Return(FilterSelectedAndTyped(Items(d), m))
    ELSE Return(FilterTyped(Items(d), m))

\* Variant: drift.featureMetrics read without optional chaining on drift.
useGetFilteredFeatures_DriftNotChained(d, m) ==
    IF d # Undefined /\ d[1].drift = Undefined THEN Throw("TypeError")
    ELSE IF d = Undefined THEN Return(<<>>)
    ELSE IF ~Truthy(m.isNumericalSelected) /\ ~Truthy(m.isCategoricalSelected)
         THEN Return(<<>>)
    ELSE IF HasSelection(m) THEN Return(FilterSelectedAndTyped(Items(d), m))
    ELSE Return(FilterTyped(Items(d), m))

\* Variant: with no type-class enabled every item is shown.
useGetFilteredFeatures_NoToggleShowsAll(d, m) ==
    IF d = Undefined THEN Return(<<>>)
    ELSE IF ~Truthy(m.isNumericalSelected) /\ ~Truthy(m.isCategoricalSelected)
         THEN Return(Items(d))
    ELSE IF HasSelection(m) THEN Return(FilterSelectedAndTyped(Items(d), m))
    ELSE Return(FilterTyped(Items(d), m))

\* The body of the hook, from its two inputs to its completion.
useGetFilteredFeatures(d, m) ==
    IF d = Undefined THEN Return(<<>>)
    ELSE IF ~Truthy(m.isNumericalSelected) /\ ~Truthy(m.isCategoricalSelected)
         THEN Return(<<>>)
    ELSE IF HasSelection(m) THEN Return(FilterSelectedAndTyped(Items(d), m))
    ELSE Return(FilterTyped(Items(d), m))

\* console.debug(type, isNumerical, isCategorical), once per item of the
\* second filter and nowhere else.
DebugLines(d, m) ==
    IF d = Undefined THEN <<>>
    ELSE IF ~Truthy(m.isNumericalSelected) /\ ~Truthy(m.isCategoricalSelected)
         THEN <<>>
    ELSE IF HasSelection(m) THEN <<>>
    ELSE [i \in 1..Len(Items(d)) |->
            <<Items(d)[i].driftCalc.type,
              isNumerical(m, Items(d)[i].driftCalc.type),
              isCategorical(m, Items(d)[i].driftCalc.type)>>]

\* ---------------------------------------------------------------- actions
Init ==
    /\ data \in Datasets
    /\ metadata \in FormMetadata
    /\ completion = Undefined
    /\ consoleDebug = <<>>
    /\ first = Undefined

\* Variant: the result list is kept between invocations and appended to
\* instead of being built afresh.
InvokeStep_Accumulates ==
    /\ completion' =
         IF completion = Undefined
         THEN Some(useGetFilteredFeatures(data, metadata))
         ELSE Some(Return(completion[1].value
                            \o useGetFilteredFeatures(data, metadata).value))
    /\ consoleDebug' = DebugLines(data, metadata)
    /\ UNCHANGED <<data, metadata>>

\* Variant: an absent selectedFeatures is normalised in place to [].
InvokeStep_NormalisesSelection ==
    /\ completion' = Some(useGetFilteredFeatures(data, metadata))
    /\ consoleDebug' = DebugLines(data, metadata)
    /\ metadata' =
         IF metadata.selectedFeatures = Undefined
         THEN [metadata EXCEPT !.selectedFeatures = Some(<<>>)]
         ELSE metadata
    /\ UNCHANGED data

\* One invocation of the hook: both snapshots are read, neither is written.
InvokeStep ==
    /\ completion' = Some(useGetFilteredFeatures(data, metadata))
    /\ consoleDebug' = DebugLines(data, metadata)
    /\ UNCHANGED <<data, metadata>>

Invoke ==
    /\ InvokeStep
    /\ UNCHANGED first

\* The polling layer replaces the snapshot; the caller will re-render.
Poll ==
    /\ \E d \in Datasets : data' = d
    /\ completion' = Undefined
    /\ consoleDebug' = <<>>
    /\ UNCHANGED <<metadata, first>>

\* The form layer edits one field of the metadata.
SetNumerical ==
    /\ \E v \in ToggleValues \ {metadata.isNumericalSelected} :
            metadata' = [metadata EXCEPT !.isNumericalSelected = v]
    /\ completion' = Undefined
    /\ consoleDebug' = <<>>
    /\ UNCHANGED <<data, first>>

SetCategorical ==
    /\ \E v \in ToggleValues \ {metadata.isCategoricalSelected} :
            metadata' = [metadata EXCEPT !.isCategoricalSelected = v]
    /\ completion' = Undefined
    /\ consoleDebug' = <<>>
    /\ UNCHANGED <<data, first>>

SetSelected ==
    /\ \E s \in Selections \ {metadata.selectedFeatures} :
            metadata' = [metadata EXCEPT !.selectedFeatures = s]
    /\ completion' = Undefined
    /\ consoleDebug' = <<>>
    /\ UNCHANGED <<data, first>>

Next == Invoke \/ Poll \/ SetNumerical \/ SetCategorical \/ SetSelected

Spec == Init /\ [][Next]_vars

\* ------------------------------------------- repeated invocations, recorded
\* The same hook, with the first invocation of the run remembered so that a
\* later invocation on the same snapshots can be compared with it.  Between
\* the two the toggles are edited and the data is dropped and delivered
\* again, and the hook is invoked on those other inputs.
SameInputs == first # Undefined /\ first[1].data = data /\ first[1].metadata = metadata

InvokeRecorded ==
    /\ InvokeStep
    /\ first' =
         IF first = Undefined
         THEN Some([data |-> data, metadata |-> metadata,
                    completion |-> completion'[1], interleaved |-> FALSE])
         ELSE IF SameInputs THEN first
         ELSE Some([first[1] EXCEPT !.interleaved = TRUE])

Unload ==
    /\ data # Undefined
    /\ data' = Undefined
    /\ completion' = Undefined
    /\ consoleDebug' = <<>>
    /\ UNCHANGED <<metadata, first>>

Reload ==
    /\ first # Undefined
    /\ data # first[1].data
    /\ data' = first[1].data
    /\ completion' = Undefined
    /\ consoleDebug' = <<>>
    /\ UNCHANGED <<metadata, first>>

NextHistory == InvokeRecorded \/ SetNumerical \/ SetCategorical \/ Unload \/ Reload

SpecHistory == Init /\ [][NextHistory]_vars

\* ---------------------------------------------------------------- claims
\* The latest invocation has returned on the current snapshots.
Returned == completion # Undefined /\ completion[1].type = "return"

Result == completion[1].value

Range(s) == {s[i] : i \in 1..Len(s)}

\* r is d with some elements removed: an order-preserving embedding exists.
IsSubsequence(r, d) ==
    \E f \in [1..Len(r) -> 1..Len(d)] :
        /\ \A i, j \in 1..Len(r) : i < j => f[i] < f[j]
        /\ \A i \in 1..Len(r) : r[i] = d[f[i]]

DistinctNames(d) == \A i, j \in 1..Len(d) : i # j => d[i].featureName # d[j].featureName

NumericalOn == metadata.isNumericalSelected = Some(TRUE)

CategoricalOn == metadata.isCategoricalSelected = Some(TRUE)

SelectionEmptyOrAbsent ==
    metadata.selectedFeatures = Undefined \/ metadata.selectedFeatures = Some(<<>>)

SelectionNonEmpty == ~SelectionEmptyOrAbsent

\* The type filter as the specification words it.
PassesType(metric) ==
    \/ NumericalOn /\ metric.driftCalc.type = DRIFT_TEST_ENUM.KS
    \/ CategoricalOn /\ metric.driftCalc.type = DRIFT_TEST_ENUM.CHI2

\* The name filter as the specification words it.
PassesName(metric) ==
    /\ metadata.selectedFeatures # Undefined
    /\ metric.featureName \in Range(metadata.selectedFeatures[1])

\* r is exactly the elements of d that satisfy P, in the order of d.
IsExactly(r, d, P(_)) ==
    /\ IsSubsequence(r, d)
    /\ \A i \in 1..Len(r) : P(r[i])
    /\ Len(r) = Cardinality({i \in 1..Len(d) : P(d[i])})

\* C1: whatever the dataset and the filter state, the returned sequence is a
\* subsequence of the input featureMetrics (same relative order, nothing
\* inserted), and with pairwise distinct featureNames no element is
\* returned twice.
C1_Subsequence ==
    completion # Undefined =>
        /\ Returned
        /\ IsSubsequence(Result, Items(data))
        /\ DistinctNames(Items(data)) =>
              \A i, j \in 1..Len(Result) : i # j => Result[i] # Result[j]

\* Two of two distinct-named metrics were kept, in input order.
C1_Witness ==
    /\ Returned
    /\ Len(Items(data)) = 2
    /\ DistinctNames(Items(data))
    /\ Result = Items(data)
    /\ Result[1].driftCalc.type = DRIFT_TEST_ENUM.CHI2
    /\ Result[2].driftCalc.type = DRIFT_TEST_ENUM.KS

\* C2: with both type toggles false the result is empty, whatever the
\* dataset and whatever selectedFeatures names.
C2_NoToggleIsEmpty ==
    (/\ completion # Undefined
     /\ metadata.isNumericalSelected = Some(FALSE)
     /\ metadata.isCategoricalSelected = Some(FALSE))
        => completion[1] = Return(<<>>)

\* Both toggles false while selectedFeatures names a feature of the dataset.
C2_Witness ==
    /\ Returned
    /\ metadata.isNumericalSelected = Some(FALSE)
    /\ metadata.isCategoricalSelected = Some(FALSE)
    /\ Len(Items(data)) > 0
    /\ \E i \in 1..Len(Items(data)) : PassesName(Items(data)[i])
    /\ Result = <<>>

\* C3: with a non-empty selectedFeatures and a type toggle true, the result
\* is exactly the input metrics whose featureName is selected and whose type
\* is enabled, in input order.
C3_NameAndType ==
    (/\ completion # Undefined
     /\ SelectionNonEmpty
     /\ (NumericalOn \/ CategoricalOn))
        => /\ Returned
           /\ LET Both(metric) == PassesName(metric) /\ PassesType(metric)
              IN  IsExactly(Result, Items(data), Both)

\* One metric kept, one of an enabled type dropped because its name is not
\* selected.
C3_Witness ==
    /\ Returned
    /\ SelectionNonEmpty
    /\ NumericalOn
    /\ Len(Items(data)) = 2
    /\ Len(Result) = 1
    /\ \E i \in 1..2 : PassesType(Items(data)[i]) /\ ~PassesName(Items(data)[i])

\* C4: with selectedFeatures empty or absent and a type toggle true, the
\* result is exactly the input metrics of an enabled type, in input order,
\* and the empty list and the absent list give the same result.
C4_TypeOnly ==
    (/\ completion # Undefined
     /\ SelectionEmptyOrAbsent
     /\ (NumericalOn \/ CategoricalOn))
        => /\ Returned
           /\ IsExactly(Result, Items(data), PassesType)
           /\ completion[1] = useGetFilteredFeatures(
                  data, [metadata EXCEPT !.selectedFeatures = Undefined])
           /\ completion[1] = useGetFilteredFeatures(
                  data, [metadata EXCEPT !.selectedFeatures = Some(<<>>)])

\* An empty (not absent) list, one metric kept and one dropped by type.
C4_Witness ==
    /\ Returned
    /\ metadata.selectedFeatures = Some(<<>>)
    /\ CategoricalOn
    /\ Len(Items(data)) = 2
    /\ Len(Result) = 1

\* C5: with the dataset absent the result is empty for every filter state.
C5_AbsentDataset ==
    (completion # Undefined /\ data = Undefined) => completion[1] = Return(<<>>)

\* Dataset absent, both toggles true and a name selected.
C5_Witness ==
    /\ Returned
    /\ data = Undefined
    /\ NumericalOn
    /\ CategoricalOn
    /\ SelectionNonEmpty
    /\ Result = <<>>

\* C6: the hook never throws on absent or empty inputs (dataset, drift,
\* featureMetrics, selectedFeatures, toggles) and returns the empty sequence
\* whenever the dataset, drift or featureMetrics is absent or empty.
C6_Total ==
    completion # Undefined =>
        /\ completion[1].type = "return"
        /\ Items(data) = <<>> => completion[1] = Return(<<>>)

\* Drift absent, one toggle unset, selectedFeatures absent.
C6_Witness ==
    /\ Returned
    /\ data = Some([drift |-> Undefined])
    /\ NumericalOn
    /\ metadata.isCategoricalSelected = Undefined
    /\ metadata.selectedFeatures = Undefined
    /\ Result = <<>>

\* C7: an invocation on the same dataset snapshot and filter state as the
\* first invocation completes as the first one did, also when invocations
\* on other inputs came in between.
C7_SameInputsSameResult ==
    (completion # Undefined /\ SameInputs) => completion[1] = first[1].completion

\* Back on the inputs of the first invocation after one on other inputs.
C7_Witness ==
    /\ Returned
    /\ SameInputs
    /\ first[1].interleaved
    /\ Len(Result) = 2

\* C8: an invocation leaves the dataset and the filter state as they were,
\* and writes diagnostics only on the path without a name filter.
C8_Frame ==
    [][completion' # Undefined =>
          /\ data' = data
          /\ metadata' = metadata
          /\ first' = first
          /\ consoleDebug' # <<>> =>
                /\ data # Undefined
                /\ NumericalOn \/ CategoricalOn
                /\ SelectionEmptyOrAbsent]_vars

\* An invocation on the path without a name filter wrote its diagnostics.
C8_Witness ==
    /\ Returned
    /\ metadata.selectedFeatures = Undefined
    /\ Len(consoleDebug) = 2
    /\ Len(Result) = 1

\* C9: a metric whose type is neither KS nor CHI2 is never in the result.
C9_OnlyKnownKinds ==
    completion # Undefined =>
        \A i \in 1..Len(Result) :
            Result[i].driftCalc.type \in {DRIFT_TEST_ENUM.KS, DRIFT_TEST_ENUM.CHI2}

\* A selected metric of another kind was dropped with both toggles true.
C9_Witness ==
    /\ Returned
    /\ NumericalOn
    /\ CategoricalOn
    /\ \E i \in 1..Len(Items(data)) :
          /\ Items(data)[i].driftCalc.type = DRIFT_TEST_ENUM.PSI
          /\ PassesName(Items(data)[i])
    /\ Len(Result) = 1

ResultNumericalOnly ==
    useGetFilteredFeatures(
        data, [metadata EXCEPT !.isCategoricalSelected = Some(FALSE)]).value

ResultCategoricalOnly ==
    useGetFilteredFeatures(
        data, [metadata EXCEPT !.isNumericalSelected = Some(FALSE)]).value

\* C10: the result with both toggles true is partitioned by the results of
\* the two single-toggle filter states on the same dataset and selection.
C10_Partition ==
    (completion # Undefined /\ NumericalOn /\ CategoricalOn) =>
        /\ Returned
        /\ Range(ResultNumericalOnly) \cap Range(ResultCategoricalOnly) = {}
        /\ IsSubsequence(ResultNumericalOnly, Result)
        /\ IsSubsequence(ResultCategoricalOnly, Result)
        /\ \A i \in 1..Len(Result) :
              (Result[i] \in Range(ResultNumericalOnly))
                  # (Result[i] \in Range(ResultCategoricalOnly))
        /\ Len(Result) = Len(ResultNumericalOnly) + Len(ResultCategoricalOnly)

\* Both single-toggle results are non-empty parts of the result.
C10_Witness ==
    /\ Returned
    /\ NumericalOn
    /\ CategoricalOn
    /\ Len(ResultNumericalOnly) = 1
    /\ Len(ResultCategoricalOnly) = 1
    /\ Len(Result) = 2

=============================================================================
